---- MODULE Spec2Model ----
(***************************************************************************)
(* Verification model of the tick-based order book matcher.                *)
(*                                                                         *)
(* Part I  (specification Spec): the off-chain matcher service as the      *)
(*   TypeScript sources implement it: RegistryMonitor (order book and      *)
(*   fetched tick registry), MatchingEngine (findMatches, evaluateMatch,   *)
(*   validateMatch), SettlementExecutor (executeSettlement and its pending *)
(*   and completed settlement collections) and MatcherService (start,      *)
(*   stop, scanAndMatch, executeMatch).                                    *)
(*                                                                         *)
(* Part II (specification CoreSpec): the order lifecycle of the on-chain   *)
(*   program (submit, cancel, update, settle with escrow).  The program    *)
(*   text sl/src/main.leo is not part of the sources at hand; those        *)
(*   operations are modelled from the written specification.               *)
(***************************************************************************)
EXTENDS Integers, Sequences, FiniteSets, TLC

VARIABLES
    orderBook,             \* RegistryMonitor.orderBook: buyOrders / sellOrders Maps in insertion order
    tickRegistry,          \* RegistryMonitor.tickRegistry: tick id -> TickInfo
    isRunning,             \* MatcherService.isRunning
    scanInterval,          \* MatcherService.scanInterval: TRUE when the interval timer is installed
    cycles,                \* running scanAndMatch calls: cycle id -> [pc, matches]
    nCycles,               \* number of scanAndMatch calls started so far
    inflight,              \* running executeSettlement calls (awaiting submitToChain / waitForConfirmation)
    pendingSettlements,    \* SettlementExecutor.pendingSettlements: settlement id -> match
    completedSettlements,  \* SettlementExecutor.completedSettlements
    now,                   \* Date.now() in ms
    nackCount,             \* history: failed settlements per (buy nonce, sell nonce)
    exhaustedAt,           \* history: when the pair's failures first exceeded MAX_RETRIES
    settledQty,            \* history: quantity of the confirmed settlements per order nonce
    pairs,                 \* PairRegistry: pair_id -> Pair
    orders,                \* OrderStore: order_id -> Order
    tickIndex,             \* TickIndex: <<pair_id, tick>> -> TickBucket
    escrow,                \* EscrowLedger: <<owner, token_id>> -> committed amount
    reservations,          \* SettlementEngine: the proposals in AwaitingAck (shadow reservations)
    halted,                \* CoreFacade: the sticky flag a fatal error trips
    desynced,              \* CoreFacade: the <<owner, token_id>> with a surfaced EscrowDesync, not yet resynchronised
    ticks,                 \* useOrderBook.ticks: tick id -> TickDisplayInfo (the client's order book display)
    quoted,                \* the last pair of orders priced, and what each component computed for it
    validation             \* the client's last validation of order parameters: what was asked, what came back

matcherVars == <<orderBook, tickRegistry, isRunning, scanInterval, cycles, nCycles, inflight,
                 pendingSettlements, completedSettlements, now, nackCount, exhaustedAt, settledQty>>

facadeVars == <<halted, desynced>>

coreVars == <<pairs, orders, tickIndex, escrow, reservations, facadeVars>>

clientVars == <<ticks, validation, quoted>>

vars == <<matcherVars, coreVars, clientVars>>

(***************************************************************************)
(* Program constants                                                       *)
(***************************************************************************)
TICK_SIZE == 100
BASIS_POINTS_PER_DOLLAR == 10000
MATCHER_FEE_BPS == 5
minProfitBasisPoints == 10
maxTickRange == 50
scanIntervalMs == 5000
MAX_TICK_RANGE == 50
\* the written specification's retry budget and suppression window
MAX_RETRIES == 3
SUPPRESS_WINDOW == 30000

(***************************************************************************)
(* Bounds of the model                                                     *)
(***************************************************************************)
MaxLocalOrders == 3
MaxTick == 2
MaxCycles == 3
MaxConcurrentMatches == 2
MaxQuantity == 2

Ticks == 1..MaxTick

Min(a, b) == IF a < b THEN a ELSE b
Max(a, b) == IF a > b THEN a ELSE b

(***************************************************************************)
(* Orders the users may hand to the matcher (TickOrder records).           *)
(***************************************************************************)
TickOrder(n, o, isBuy, lo, hi, price, qty, f, ts) ==
    [nonce |-> n, owner |-> o, token_pair |-> 1, is_buy |-> isBuy,
     tick_lower |-> lo, tick_upper |-> hi, limit_price |-> price,
     quantity |-> qty, filled |-> f, timestamp |-> ts]

OrderCatalog ==
    { TickOrder("b1", "A", TRUE,  1, MaxTick, MaxTick * TICK_SIZE, 2, 0, 100),
      TickOrder("s1", "B", FALSE, 1, MaxTick, TICK_SIZE,           1, 0, 101) }

TickInfos ==
    { [total_buy_quantity |-> 1, total_sell_quantity |-> 1],
      [total_buy_quantity |-> 1, total_sell_quantity |-> 0] }

\* what the chain may answer to the tick_registry query
ChainRegistries == [Ticks -> TickInfos]

(***************************************************************************)
(* Sequence helpers                                                        *)
(***************************************************************************)
Range(s) == { s[i] : i \in DOMAIN s }

(***************************************************************************)
(* RegistryMonitor                                                         *)
(***************************************************************************)
\* Object.entries over integer-like keys enumerates them in ascending order
RECURSIVE TicksFrom(_, _)
TicksFrom(reg, t) ==
    IF t > MaxTick + 1 THEN <<>>
    ELSE (IF t \in DOMAIN reg /\ reg[t].total_buy_quantity > 0 /\ reg[t].total_sell_quantity > 0
          THEN <<t>> ELSE <<>>) \o TicksFrom(reg, t + 1)

findOverlappingTicks(reg) == TicksFrom(reg, 0)

hasLiquidity(reg, tickId, minQuantity) ==
    IF tickId \notin DOMAIN reg THEN FALSE
    ELSE reg[tickId].total_buy_quantity >= minQuantity
         /\ reg[tickId].total_sell_quantity >= minQuantity

InRange(order, tickLower, tickUpper) ==
    order.tick_lower <= tickUpper /\ order.tick_upper >= tickLower /\ order.filled < order.quantity

getBuyOrdersInRange(book, tickLower, tickUpper) ==
    SelectSeq(book.buyOrders, LAMBDA o : InRange(o, tickLower, tickUpper))

getSellOrdersInRange(book, tickLower, tickUpper) ==
    SelectSeq(book.sellOrders, LAMBDA o : InRange(o, tickLower, tickUpper))

\* Map.set: a new key goes last, an existing key keeps its place and takes the new value
MapSet(m, order) ==
    IF \E i \in DOMAIN m : m[i].nonce = order.nonce
    THEN [i \in DOMAIN m |-> IF m[i].nonce = order.nonce THEN order ELSE m[i]]
    ELSE Append(m, order)

MapDelete(m, orderId) == SelectSeq(m, LAMBDA o : o.nonce # orderId)

addOrder(book, order) ==
    IF order.is_buy
    THEN [book EXCEPT !.buyOrders = MapSet(@, order)]
    ELSE [book EXCEPT !.sellOrders = MapSet(@, order)]

removeOrder(book, orderId, isBuy) ==
    IF isBuy
    THEN [book EXCEPT !.buyOrders = MapDelete(@, orderId)]
    ELSE [book EXCEPT !.sellOrders = MapDelete(@, orderId)]

(***************************************************************************)
(* MatchingEngine                                                          *)
(***************************************************************************)
RECURSIVE TickSeq(_, _)
TickSeq(lo, hi) == IF lo > hi THEN <<>> ELSE <<lo>> \o TickSeq(lo + 1, hi)

\* the checks of evaluateMatch that end it with null
\* a token pair check that lets every two orders through
DifferentPairsIgnored(buyOrder, sellOrder) == FALSE

DifferentPairs(buyOrder, sellOrder) == buyOrder.token_pair # sellOrder.token_pair

\* an owner check that lets self-trades through
SelfTradeIgnored(buyOrder, sellOrder) == FALSE

SelfTrade(buyOrder, sellOrder) == buyOrder.owner = sellOrder.owner

overlapLower(buyOrder, sellOrder) ==
    IF buyOrder.tick_lower > sellOrder.tick_lower THEN buyOrder.tick_lower ELSE sellOrder.tick_lower

overlapUpper(buyOrder, sellOrder) ==
    IF buyOrder.tick_upper < sellOrder.tick_upper THEN buyOrder.tick_upper ELSE sellOrder.tick_upper

NoOverlap(buyOrder, sellOrder) ==
    overlapLower(buyOrder, sellOrder) > overlapUpper(buyOrder, sellOrder)

\* a price check that lets non-crossing orders through
PricesDoNotCrossIgnored(buyOrder, sellOrder) == FALSE

PricesDoNotCross(buyOrder, sellOrder) == buyOrder.limit_price < sellOrder.limit_price

executionPrice(buyOrder, sellOrder) == (buyOrder.limit_price + sellOrder.limit_price) \div 2

\* a range check that only looks at the lower end of the overlap
PriceBelowOverlapOnly(buyOrder, sellOrder) ==
    executionPrice(buyOrder, sellOrder) < overlapLower(buyOrder, sellOrder) * TICK_SIZE

PriceOutsideOverlap(buyOrder, sellOrder) ==
    \/ executionPrice(buyOrder, sellOrder) < overlapLower(buyOrder, sellOrder) * TICK_SIZE
    \/ executionPrice(buyOrder, sellOrder) > overlapUpper(buyOrder, sellOrder) * TICK_SIZE

\* the result is <<>> for null and <<candidate>> otherwise
evaluateMatch(buyOrder, sellOrder) ==
    LET buyRemaining == buyOrder.quantity - buyOrder.filled
        sellRemaining == sellOrder.quantity - sellOrder.filled
        executionQuantity == IF buyRemaining < sellRemaining THEN buyRemaining ELSE sellRemaining
        totalValue == (executionQuantity * executionPrice(buyOrder, sellOrder)) \div BASIS_POINTS_PER_DOLLAR
        matcherFee == (totalValue * MATCHER_FEE_BPS) \div BASIS_POINTS_PER_DOLLAR
        priceSpread == buyOrder.limit_price - sellOrder.limit_price
        profitability == priceSpread + matcherFee
    IN  IF DifferentPairs(buyOrder, sellOrder) THEN <<>>
        ELSE IF SelfTrade(buyOrder, sellOrder) THEN <<>>
        ELSE IF NoOverlap(buyOrder, sellOrder) THEN <<>>
        ELSE IF PricesDoNotCross(buyOrder, sellOrder) THEN <<>>
        ELSE IF executionQuantity = 0 THEN <<>>
        ELSE IF PriceOutsideOverlap(buyOrder, sellOrder) THEN <<>>
        ELSE IF profitability < minProfitBasisPoints THEN <<>>
        ELSE << [buyOrder |-> buyOrder, sellOrder |-> sellOrder,
                 overlapTicks |-> TickSeq(overlapLower(buyOrder, sellOrder),
                                          overlapUpper(buyOrder, sellOrder)),
                 expectedQuantity |-> executionQuantity,
                 expectedPrice |-> executionPrice(buyOrder, sellOrder),
                 profitability |-> profitability] >>

RECURSIVE MatchesOfBuy(_, _)
MatchesOfBuy(buyOrder, sellOrders) ==
    IF sellOrders = <<>> THEN <<>>
    ELSE evaluateMatch(buyOrder, Head(sellOrders)) \o MatchesOfBuy(buyOrder, Tail(sellOrders))

RECURSIVE MatchesOfBuys(_, _)
MatchesOfBuys(buyOrders, sellOrders) ==
    IF buyOrders = <<>> THEN <<>>
    ELSE MatchesOfBuy(Head(buyOrders), sellOrders) \o MatchesOfBuys(Tail(buyOrders), sellOrders)

findMatchesAtTick(book, tickId) ==
    MatchesOfBuys(getBuyOrdersInRange(book, tickId, tickId),
                  getSellOrdersInRange(book, tickId, tickId))

RECURSIVE MatchesAtTicks(_, _)
MatchesAtTicks(book, overlappingTicks) ==
    IF overlappingTicks = <<>> THEN <<>>
    ELSE findMatchesAtTick(book, Head(overlappingTicks)) \o MatchesAtTicks(book, Tail(overlappingTicks))

\* Array.prototype.sort is stable: b.profitability - a.profitability, highest first
RECURSIVE InsertByProfit(_, _)
InsertByProfit(sorted, m) ==
    IF sorted = <<>> THEN <<m>>
    ELSE IF Head(sorted).profitability >= m.profitability
         THEN <<Head(sorted)>> \o InsertByProfit(Tail(sorted), m)
         ELSE <<m>> \o sorted

RECURSIVE SortByProfit(_, _)
SortByProfit(sorted, rest) ==
    IF rest = <<>> THEN sorted
    ELSE SortByProfit(InsertByProfit(sorted, Head(rest)), Tail(rest))

findMatches(book, reg) ==
    SortByProfit(<<>>, MatchesAtTicks(book, findOverlappingTicks(reg)))

isOrderValid(order) ==
    /\ ~(order.filled >= order.quantity)
    /\ ~(order.tick_upper - order.tick_lower > maxTickRange)
    /\ ~(order.limit_price < order.tick_lower * TICK_SIZE
          \/ order.limit_price > order.tick_upper * TICK_SIZE)

validateMatch(match, reg) ==
    /\ isOrderValid(match.buyOrder)
    /\ isOrderValid(match.sellOrder)
    /\ \A i \in DOMAIN match.overlapTicks : hasLiquidity(reg, match.overlapTicks[i], 1)

calculateSettlement(match) ==
    LET baseAmount == match.expectedQuantity
        quoteAmount == (match.expectedQuantity * match.expectedPrice) \div BASIS_POINTS_PER_DOLLAR
        matcherFee == (quoteAmount * MATCHER_FEE_BPS) \div BASIS_POINTS_PER_DOLLAR
    IN  [baseAmount |-> baseAmount, quoteAmount |-> quoteAmount, matcherFee |-> matcherFee]

(***************************************************************************)
(* SettlementExecutor                                                      *)
(***************************************************************************)
PairOf(match) == <<match.buyOrder.nonce, match.sellOrder.nonce>>

PairIds ==
    { <<b.nonce, s.nonce>> : b \in { o \in OrderCatalog : o.is_buy },
                             s \in { o \in OrderCatalog : ~o.is_buy } }

\* `${buyOrder.nonce}-${sellOrder.nonce}-${Date.now()}`
generateSettlementId(match, time) == <<match.buyOrder.nonce, match.sellOrder.nonce, time>>

\* a fee taken on the base amount instead of the quote amount
calculateMatcherFeeOnBase(match) ==
    (match.expectedQuantity * MATCHER_FEE_BPS) \div BASIS_POINTS_PER_DOLLAR

calculateMatcherFee(match) ==
    LET totalValue == (match.expectedQuantity * match.expectedPrice) \div BASIS_POINTS_PER_DOLLAR
    IN  (totalValue * MATCHER_FEE_BPS) \div BASIS_POINTS_PER_DOLLAR

SettlementOf(match, time) ==
    [buyer |-> match.buyOrder.owner, seller |-> match.sellOrder.owner,
     token_pair |-> match.buyOrder.token_pair, quantity |-> match.expectedQuantity,
     price |-> match.expectedPrice, timestamp |-> time \div 1000,
     matcher_fee |-> calculateMatcherFee(match)]

\* Map.delete
PendingDelete(pending, sid) == [k \in DOMAIN pending \ {sid} |-> pending[k]]

\* the success branch of executeSettlement
OnConfirmed(pending, sid) == PendingDelete(pending, sid)

\* a failure branch that forgets pendingSettlements.delete
OnFailedKeepsPending(pending, sid) == pending

\* the failure branch of executeSettlement (rejected, or maxWaitTime elapsed)
OnFailed(pending, sid) == PendingDelete(pending, sid)

\* the catch branch of executeSettlement
OnError(pending, sid) == pending

(***************************************************************************)
(* MatcherService                                                          *)
(***************************************************************************)
\* a scan that hands every candidate on
toExecuteAll(matches) == matches

\* scanAndMatch, steps 2 and 3: the candidates of this cycle that executeMatch
\* hands to executeSettlement, as indexes into matches
toExecute(matches) == SubSeq(matches, 1, Min(Len(matches), MaxConcurrentMatches))

executeMatch(match, reg) == validateMatch(match, reg)

Started(matches, reg) ==
    { i \in DOMAIN toExecute(matches) : executeMatch(matches[i], reg) }

Call(c, i, match) ==
    [cycle |-> c, idx |-> i, match |-> match,
     sid |-> generateSettlementId(match, now), at |-> now,
     priorNacks |-> nackCount[PairOf(match)]]

\* a scanAndMatch call returns; start() awaits the first one and then installs the timer
CycleReturns(c, rest) ==
    /\ cycles' = [k \in DOMAIN rest \ {c} |-> rest[k]]
    /\ scanInterval' = IF c = 1 THEN TRUE ELSE scanInterval

InitMatcher ==
    /\ orderBook = [buyOrders |-> <<>>, sellOrders |-> <<>>]
    /\ tickRegistry = <<>>
    /\ isRunning = FALSE
    /\ scanInterval = FALSE
    /\ cycles = <<>>
    /\ nCycles = 0
    /\ inflight = {}
    /\ pendingSettlements = <<>>
    /\ completedSettlements = <<>>
    /\ now = 0
    /\ nackCount = [p \in PairIds |-> 0]
    /\ exhaustedAt = [p \in PairIds |-> 0]
    /\ settledQty = [n \in { o.nonce : o \in OrderCatalog } |-> 0]

\* RegistryMonitor.addOrder, called when a user submits an order to the matcher
AddOrder(order) ==
    /\ orderBook' = addOrder(orderBook, order)
    /\ orderBook' # orderBook
    /\ UNCHANGED <<tickRegistry, isRunning, scanInterval, cycles, nCycles, inflight,
                   pendingSettlements, completedSettlements, now, nackCount, exhaustedAt, settledQty>>
    /\ UNCHANGED <<coreVars, clientVars>>

\* RegistryMonitor.removeOrder, called after a fill or a cancel
RemoveOrder(order) ==
    /\ order \in Range(orderBook.buyOrders) \cup Range(orderBook.sellOrders)
    /\ orderBook' = removeOrder(orderBook, order.nonce, order.is_buy)
    /\ UNCHANGED <<tickRegistry, isRunning, scanInterval, cycles, nCycles, inflight,
                   pendingSettlements, completedSettlements, now, nackCount, exhaustedAt, settledQty>>
    /\ UNCHANGED <<coreVars, clientVars>>

\* MatcherService.start up to the await of the initial scanAndMatch
Start ==
    /\ nCycles = 0
    /\ isRunning' = TRUE
    /\ nCycles' = 1
    /\ cycles' = (1 :> [pc |-> "fetch", matches |-> <<>>])
    /\ UNCHANGED <<orderBook, tickRegistry, scanInterval, inflight, pendingSettlements,
                   completedSettlements, now, nackCount, exhaustedAt, settledQty>>
    /\ UNCHANGED <<coreVars, clientVars>>

\* MatcherService.stop
Stop ==
    /\ isRunning
    /\ isRunning' = FALSE
    /\ scanInterval' = FALSE
    /\ UNCHANGED <<orderBook, tickRegistry, cycles, nCycles, inflight, pendingSettlements,
                   completedSettlements, now, nackCount, exhaustedAt, settledQty>>
    /\ UNCHANGED <<coreVars, clientVars>>

\* the interval timer fires: scanAndMatch up to the await of fetchTickRegistry
TimerFires ==
    /\ scanInterval
    /\ nCycles < MaxCycles
    /\ nCycles' = nCycles + 1
    /\ now' = now + scanIntervalMs
    /\ cycles' = IF isRunning
                 THEN cycles @@ ((nCycles + 1) :> [pc |-> "fetch", matches |-> <<>>])
                 ELSE cycles
    /\ UNCHANGED <<orderBook, tickRegistry, isRunning, scanInterval, inflight,
                   pendingSettlements, completedSettlements, nackCount, exhaustedAt, settledQty>>
    /\ UNCHANGED <<coreVars, clientVars>>

\* fetchTickRegistry throws: the catch of scanAndMatch ends the cycle
FetchFails(c) ==
    /\ c \in DOMAIN cycles
    /\ cycles[c].pc = "fetch"
    /\ CycleReturns(c, cycles)
    /\ UNCHANGED <<orderBook, tickRegistry, isRunning, nCycles, inflight, pendingSettlements,
                   completedSettlements, now, nackCount, exhaustedAt, settledQty>>
    /\ UNCHANGED <<coreVars, clientVars>>

\* fetchTickRegistry resolves: scanAndMatch runs findMatches, slices, and every
\* executeMatch validates and runs executeSettlement up to its first timer await
FetchResolves(c, reg) ==
    /\ c \in DOMAIN cycles
    /\ cycles[c].pc = "fetch"
    /\ tickRegistry' = reg
    /\ LET matches == findMatches(orderBook, reg)
           started == Started(matches, reg)
           calls   == { Call(c, i, matches[i]) : i \in started }
           sids    == { f.sid : f \in calls }
           last(sid) == CHOOSE f \in calls : f.sid = sid /\ \A g \in calls : g.sid = sid => g.idx <= f.idx
       IN  /\ inflight' = inflight \cup calls
           /\ pendingSettlements' =
                  [sid \in DOMAIN pendingSettlements \cup sids |->
                      IF sid \in sids THEN last(sid).match ELSE pendingSettlements[sid]]
           /\ IF started = {}
              THEN CycleReturns(c, cycles)
              ELSE /\ cycles' = [cycles EXCEPT ![c] = [pc |-> "exec", matches |-> matches]]
                   /\ UNCHANGED scanInterval
    /\ UNCHANGED <<orderBook, isRunning, nCycles, completedSettlements, now, nackCount, exhaustedAt, settledQty>>
    /\ UNCHANGED <<coreVars, clientVars>>

\* Promise.allSettled resolves once the last executeMatch of the cycle has returned
Returns(f) ==
    IF \E g \in inflight \ {f} : g.cycle = f.cycle
    THEN UNCHANGED <<cycles, scanInterval>>
    ELSE CycleReturns(f.cycle, cycles)

\* waitForConfirmation resolves true
Confirmed(f) ==
    /\ f \in inflight
    /\ inflight' = inflight \ {f}
    /\ completedSettlements' = Append(completedSettlements, SettlementOf(f.match, now))
    /\ pendingSettlements' = OnConfirmed(pendingSettlements, f.sid)
    /\ settledQty' = [settledQty EXCEPT
                         ![f.match.buyOrder.nonce] = @ + f.match.expectedQuantity,
                         ![f.match.sellOrder.nonce] = @ + f.match.expectedQuantity]
    /\ Returns(f)
    /\ UNCHANGED <<orderBook, tickRegistry, isRunning, nCycles, now, nackCount, exhaustedAt>>
    /\ UNCHANGED <<coreVars, clientVars>>

\* waitForConfirmation resolves false: the transaction was rejected or maxWaitTime ran out
Failed(f) ==
    /\ f \in inflight
    /\ inflight' = inflight \ {f}
    /\ pendingSettlements' = OnFailed(pendingSettlements, f.sid)
    /\ nackCount' = [nackCount EXCEPT ![PairOf(f.match)] = @ + 1]
    /\ exhaustedAt' = IF nackCount[PairOf(f.match)] = MAX_RETRIES
                      THEN [exhaustedAt EXCEPT ![PairOf(f.match)] = now]
                      ELSE exhaustedAt
    /\ Returns(f)
    /\ UNCHANGED <<orderBook, tickRegistry, isRunning, nCycles, completedSettlements, now, settledQty>>
    /\ UNCHANGED <<coreVars, clientVars>>

\* submitToChain or waitForConfirmation throws
Errored(f) ==
    /\ f \in inflight
    /\ inflight' = inflight \ {f}
    /\ pendingSettlements' = OnError(pendingSettlements, f.sid)
    /\ Returns(f)
    /\ UNCHANGED <<orderBook, tickRegistry, isRunning, nCycles, completedSettlements, now,
                   nackCount, exhaustedAt, settledQty>>
    /\ UNCHANGED <<coreVars, clientVars>>

Next ==
    \/ \E order \in OrderCatalog : AddOrder(order)
    \/ \E order \in OrderCatalog : RemoveOrder(order)
    \/ Start
    \/ Stop
    \/ TimerFires
    \/ \E c \in 1..MaxCycles : FetchFails(c)
    \/ \E c \in 1..MaxCycles, reg \in ChainRegistries : FetchResolves(c, reg)
    \/ \E f \in inflight : Confirmed(f)
    \/ \E f \in inflight : Failed(f)
    \/ \E f \in inflight : Errored(f)

(***************************************************************************)
(* Part II: the order lifecycle (pairs, orders, tick index, escrow,        *)
(* settlement of proposals), modelled from the written specification.      *)
(***************************************************************************)
Owners == {"A", "B"}

OrderIds == 1..4

\* pair 1 is registered and active, pair 3 is registered and deactivated, pair 2
\* was never registered
InitPairs ==
    (1 :> [base_token_id |-> "BASE", quote_token_id |-> "QUOTE",
           tick_size |-> BASIS_POINTS_PER_DOLLAR, max_tick_range |-> 2, active |-> TRUE])
    @@ (3 :> [base_token_id |-> "BASE", quote_token_id |-> "QUOTE",
              tick_size |-> BASIS_POINTS_PER_DOLLAR, max_tick_range |-> 2, active |-> FALSE])

SubmitOrder(id, o, side, lo, hi, price, qty) ==
    [order_id |-> id, owner |-> o, pair_id |-> 1, side |-> side,
     tick_lower |-> lo, tick_upper |-> hi, limit_price |-> price, quantity |-> qty]

\* the commands the users send: a buy over two ticks, two sells it crosses,
\* a sell whose tick range is empty, and two sells that are valid but for the
\* pair they name: one never registered, one deactivated
SubmitCommands ==
    { SubmitOrder(1, "A", "Buy",  1, 3, 2 * BASIS_POINTS_PER_DOLLAR, 3),
      SubmitOrder(2, "B", "Sell", 1, 2, BASIS_POINTS_PER_DOLLAR,     1),
      SubmitOrder(3, "B", "Sell", 2, 3, 2 * BASIS_POINTS_PER_DOLLAR, 2),
      SubmitOrder(4, "A", "Sell", 2, 2, 2 * BASIS_POINTS_PER_DOLLAR, 1),
      [SubmitOrder(5, "B", "Sell", 1, 2, BASIS_POINTS_PER_DOLLAR, 1) EXCEPT !.pair_id = 2],
      [SubmitOrder(6, "B", "Sell", 1, 2, BASIS_POINTS_PER_DOLLAR, 1) EXCEPT !.pair_id = 3] }

\* the (tick_lower, tick_upper, limit_price) an update may ask for
UpdateShapes ==
    { <<1, 3, 2 * BASIS_POINTS_PER_DOLLAR>>, <<2, 3, 2 * BASIS_POINTS_PER_DOLLAR>> }

EmptyMap == [k \in {} |-> 0]

(* PairRegistry *)
\* a lookup that reports an absent pair as a deactivated one
require_activeNoLookup(reg, pair_id) ==
    IF pair_id \notin DOMAIN reg THEN "PairInactive"
    ELSE IF ~reg[pair_id].active THEN "PairInactive"
    ELSE "Ok"

require_active(reg, pair_id) ==
    IF pair_id \notin DOMAIN reg THEN "PairNotFound"
    ELSE IF ~reg[pair_id].active THEN "PairInactive"
    ELSE "Ok"

(* Validator *)
check_submission(pair, side, tick_lower, tick_upper, limit_price, quantity) ==
    IF ~pair.active THEN "PairInactive"
    ELSE IF ~(0 <= tick_lower /\ tick_lower < tick_upper) THEN "InvalidTickRange"
    ELSE IF tick_upper - tick_lower > pair.max_tick_range THEN "TickRangeExceedsMax"
    ELSE IF ~(tick_lower * pair.tick_size <= limit_price
              /\ limit_price <= tick_upper * pair.tick_size) THEN "PriceOutsideTicks"
    ELSE IF quantity <= 0 THEN "NonPositiveQuantity"
    ELSE "Ok"

exec_price(buy, sell) == (buy.limit_price + sell.limit_price) \div 2

check_match(buy, sell, pair) ==
    LET overlap_low  == Max(buy.tick_lower, sell.tick_lower)
        overlap_high == Min(buy.tick_upper, sell.tick_upper)
    IN  IF buy.pair_id # sell.pair_id THEN "SamePair?"
        ELSE IF buy.owner = sell.owner THEN "SameOwner"
        ELSE IF buy.limit_price < sell.limit_price THEN "PricesDoNotCross"
        ELSE IF overlap_low >= overlap_high THEN "NoTickOverlap"
        ELSE IF buy.filled >= buy.quantity \/ sell.filled >= sell.quantity THEN "EitherAlreadyFilled"
        ELSE IF ~(overlap_low * pair.tick_size <= exec_price(buy, sell)
                  /\ exec_price(buy, sell) <= overlap_high * pair.tick_size)
             THEN "OverlapPriceOutOfBounds"
        ELSE "Ok"

(* Order *)
\* a derivation of the status that takes an exactly filled order for partially filled
StatusOfStrict(filled, quantity) ==
    IF quantity > 0 /\ filled > quantity THEN "Filled"
    ELSE IF quantity > 0 /\ filled > 0 THEN "PartiallyFilled"
    ELSE "Active"

\* the status of an order follows from filled / quantity
StatusOf(filled, quantity) ==
    IF quantity > 0 /\ filled >= quantity THEN "Filled"
    ELSE IF quantity > 0 /\ filled > 0 THEN "PartiallyFilled"
    ELSE "Active"

\* a liveness test that forgets the cancelled orders
LiveUnlessFilled(order) == order.status # "Filled"

Live(order) == order.status \in {"Active", "PartiallyFilled"}

\* escrow booked for quantity units at limit_price: quote for a buy, base for a sell
RequiredEscrow(side, quantity, limit_price) ==
    IF side = "Buy" THEN (quantity * limit_price) \div BASIS_POINTS_PER_DOLLAR ELSE quantity

EscrowToken(pair, side) ==
    IF side = "Buy" THEN pair.quote_token_id ELSE pair.base_token_id

(* EscrowLedger *)
committed(ledger, owner, token_id) ==
    IF <<owner, token_id>> \in DOMAIN ledger THEN ledger[<<owner, token_id>>] ELSE 0

\* entries with zero commitment are pruned
SetCommitted(ledger, key, amount) ==
    IF amount = 0
    THEN [k \in DOMAIN ledger \ {key} |-> ledger[k]]
    ELSE [k \in DOMAIN ledger \cup {key} |-> IF k = key THEN amount ELSE ledger[k]]

\* a commit that books nothing
commitNothing(ledger, owner, token_id, amount) == ledger

commit(ledger, owner, token_id, amount) ==
    SetCommitted(ledger, <<owner, token_id>>, committed(ledger, owner, token_id) + amount)

\* a release that forgets to decrease the committed balance
releaseKeepsCommitted(ledger, owner, token_id, amount) == ledger

release(ledger, owner, token_id, amount) ==
    SetCommitted(ledger, <<owner, token_id>>, committed(ledger, owner, token_id) - amount)

(* TickIndex *)
EmptyBucket == [buy_ids |-> <<>>, sell_ids |-> <<>>]

\* ordering of a bucket: ascending created_at, ties broken by order_id
Before(ords, a, b) ==
    \/ ords[a].created_at < ords[b].created_at
    \/ ords[a].created_at = ords[b].created_at /\ a < b

InsertId(ids, id, ords) ==
    LET k == Cardinality({ i \in DOMAIN ids : Before(ords, ids[i], id) })
    IN  SubSeq(ids, 1, k) \o <<id>> \o SubSeq(ids, k + 1, Len(ids))

RemoveId(ids, id) == SelectSeq(ids, LAMBDA x : x # id)

OrderKeys(order) == { <<order.pair_id, t>> : t \in order.tick_lower..(order.tick_upper - 1) }

insert_order(index, order, ords) ==
    LET keys == OrderKeys(order)
        at(k) == IF k \in DOMAIN index THEN index[k] ELSE EmptyBucket
        put(b) == IF order.side = "Buy"
                  THEN [b EXCEPT !.buy_ids = InsertId(@, order.order_id, ords)]
                  ELSE [b EXCEPT !.sell_ids = InsertId(@, order.order_id, ords)]
    IN  [k \in DOMAIN index \cup keys |-> IF k \in keys THEN put(at(k)) ELSE index[k]]

\* a removal that leaves the emptied buckets in the index
remove_orderKeepsBuckets(index, order) ==
    LET keys == OrderKeys(order)
        take(b) == IF order.side = "Buy"
                   THEN [b EXCEPT !.buy_ids = RemoveId(@, order.order_id)]
                   ELSE [b EXCEPT !.sell_ids = RemoveId(@, order.order_id)]
    IN  [k \in DOMAIN index |-> IF k \in keys THEN take(index[k]) ELSE index[k]]

\* the inverse of insert_order; empty buckets are pruned
remove_order(index, order) ==
    LET keys == OrderKeys(order)
        take(b) == IF order.side = "Buy"
                   THEN [b EXCEPT !.buy_ids = RemoveId(@, order.order_id)]
                   ELSE [b EXCEPT !.sell_ids = RemoveId(@, order.order_id)]
        after == [k \in DOMAIN index |-> IF k \in keys THEN take(index[k]) ELSE index[k]]
    IN  [k \in { x \in DOMAIN index : after[x] # EmptyBucket } |-> after[k]]

(* SettlementEngine: shadow bookkeeping *)
RECURSIVE SumFill(_)
SumFill(proposals) ==
    IF proposals = {} THEN 0
    ELSE LET p == CHOOSE q \in proposals : TRUE
         IN  p.fill_qty + SumFill(proposals \ {p})

\* a bookkeeping that sees no reservation
reservedNothing(proposals, id) == 0

reserved(proposals, id) ==
    SumFill({ p \in proposals : p.buy_id = id \/ p.sell_id = id })

remaining(ords, proposals, id) ==
    ords[id].quantity - ords[id].filled - reserved(proposals, id)

SettlementProposal(buy, sell, fill_qty) ==
    [buy_id |-> buy.order_id, sell_id |-> sell.order_id, fill_qty |-> fill_qty,
     exec_price |-> exec_price(buy, sell),
     quote_amount |-> (fill_qty * exec_price(buy, sell)) \div BASIS_POINTS_PER_DOLLAR]

(* CoreFacade *)
InitCore ==
    /\ pairs = InitPairs
    /\ orders = EmptyMap
    /\ tickIndex = EmptyMap
    /\ escrow = EmptyMap
    /\ reservations = {}
    /\ halted = FALSE
    /\ desynced = {}

\* a command check that goes on after a fatal error
CommandErrorIgnoresHalt(reason) == reason

\* after a fatal error every command fails with CoreHalted, whatever else is wrong with it
CommandError(reason) == IF halted THEN "CoreHalted" ELSE reason

\* a failed operation returns its reason and changes nothing
Rejected(reason) ==
    /\ reason # "Ok"
    /\ UNCHANGED <<pairs, orders, tickIndex, escrow, reservations>>

NewOrder(cmd, created_at) ==
    [order_id |-> cmd.order_id, owner |-> cmd.owner, pair_id |-> cmd.pair_id, side |-> cmd.side,
     tick_lower |-> cmd.tick_lower, tick_upper |-> cmd.tick_upper,
     limit_price |-> cmd.limit_price, quantity |-> cmd.quantity, filled |-> 0,
     escrow_amount |-> RequiredEscrow(cmd.side, cmd.quantity, cmd.limit_price),
     created_at |-> created_at, status |-> "Active"]

SubmitError(cmd, available) ==
    IF require_active(pairs, cmd.pair_id) # "Ok" THEN require_active(pairs, cmd.pair_id)
    ELSE IF check_submission(pairs[cmd.pair_id], cmd.side, cmd.tick_lower, cmd.tick_upper,
                             cmd.limit_price, cmd.quantity) # "Ok"
         THEN check_submission(pairs[cmd.pair_id], cmd.side, cmd.tick_lower, cmd.tick_upper,
                               cmd.limit_price, cmd.quantity)
    ELSE IF cmd.order_id \in DOMAIN orders THEN "DuplicateOrder"
    ELSE IF ~available THEN "InsufficientEscrow"
    ELSE "Ok"

\* what an accepted submit leaves of OrderStore, TickIndex and EscrowLedger
Submitted(ords, index, ledger, cmd) ==
    LET order  == NewOrder(cmd, Cardinality(DOMAIN ords))
        stored == ords @@ (cmd.order_id :> order)
    IN  [orders    |-> stored,
         tickIndex |-> insert_order(index, order, stored),
         escrow    |-> commit(ledger, order.owner, EscrowToken(pairs[order.pair_id], order.side),
                              order.escrow_amount)]

\* submit(cmd); available: whether the owner can back the required escrow
Submit(cmd, available) ==
    /\ IF CommandError(SubmitError(cmd, available)) # "Ok"
       THEN Rejected(CommandError(SubmitError(cmd, available)))
       ELSE LET after == Submitted(orders, tickIndex, escrow, cmd)
            IN  /\ orders' = after.orders
                /\ tickIndex' = after.tickIndex
                /\ escrow' = after.escrow
                /\ UNCHANGED <<pairs, reservations>>
    /\ UNCHANGED <<matcherVars, clientVars, facadeVars>>

\* an owner check that lets any caller through
OwnerErrorAnyCaller(order_id, caller) ==
    IF order_id \notin DOMAIN orders THEN "UnknownOrder"
    ELSE IF ~Live(orders[order_id]) THEN "AlreadyTerminal"
    ELSE "Ok"

OwnerError(order_id, caller) ==
    IF order_id \notin DOMAIN orders THEN "UnknownOrder"
    ELSE IF orders[order_id].owner # caller THEN "NotOwner"
    ELSE IF ~Live(orders[order_id]) THEN "AlreadyTerminal"
    ELSE "Ok"

\* what an accepted cancel leaves of OrderStore, TickIndex and EscrowLedger
Cancelled(ords, index, ledger, order_id) ==
    LET order == ords[order_id]
    IN  [orders    |-> [ords EXCEPT ![order_id] =
                           [order EXCEPT !.status = "Cancelled", !.escrow_amount = 0]],
         tickIndex |-> remove_order(index, order),
         escrow    |-> release(ledger, order.owner, EscrowToken(pairs[order.pair_id], order.side),
                               order.escrow_amount)]

\* cancel(order_id, caller)
Cancel(order_id, caller) ==
    /\ IF CommandError(OwnerError(order_id, caller)) # "Ok"
       THEN Rejected(CommandError(OwnerError(order_id, caller)))
       ELSE LET after == Cancelled(orders, tickIndex, escrow, order_id)
            IN  /\ tickIndex' = after.tickIndex
                /\ escrow' = after.escrow
                /\ orders' = after.orders
                /\ UNCHANGED <<pairs, reservations>>
    /\ UNCHANGED <<matcherVars, clientVars, facadeVars>>

\* the order an accepted update leaves: escrow is recomputed for what is not yet filled
Replaced(order, tick_lower, tick_upper, limit_price, quantity) ==
    [order EXCEPT !.tick_lower = tick_lower, !.tick_upper = tick_upper,
                  !.limit_price = limit_price, !.quantity = quantity,
                  !.escrow_amount = RequiredEscrow(order.side, quantity - order.filled, limit_price),
                  !.status = StatusOf(order.filled, quantity)]

\* an update check that stops after the owner check
UpdateErrorOwnerOnly(order_id, caller, tick_lower, tick_upper, limit_price, quantity) ==
    OwnerError(order_id, caller)

UpdateError(order_id, caller, tick_lower, tick_upper, limit_price, quantity) ==
    IF OwnerError(order_id, caller) # "Ok" THEN OwnerError(order_id, caller)
    ELSE LET order == orders[order_id]
             check == check_submission(pairs[order.pair_id], order.side, tick_lower, tick_upper,
                                       limit_price, quantity)
         IN  IF check # "Ok" THEN check
             ELSE IF quantity < order.filled + reserved(reservations, order_id)
                  THEN "QuantityBelowFilled"
             ELSE "Ok"

\* an update that takes the order out of the index and does not put it back
UpdatedWithoutReindex(ords, index, ledger, order_id, tick_lower, tick_upper, limit_price, quantity) ==
    LET order  == ords[order_id]
        new    == Replaced(order, tick_lower, tick_upper, limit_price, quantity)
        token  == EscrowToken(pairs[order.pair_id], order.side)
    IN  [orders    |-> [ords EXCEPT ![order_id] = new],
         tickIndex |-> remove_order(index, order),
         escrow    |-> commit(release(ledger, order.owner, token, order.escrow_amount),
                              order.owner, token, new.escrow_amount)]

\* what an accepted update leaves of OrderStore, TickIndex and EscrowLedger
Updated(ords, index, ledger, order_id, tick_lower, tick_upper, limit_price, quantity) ==
    LET order  == ords[order_id]
        new    == Replaced(order, tick_lower, tick_upper, limit_price, quantity)
        stored == [ords EXCEPT ![order_id] = new]
        token  == EscrowToken(pairs[order.pair_id], order.side)
    IN  [orders    |-> stored,
         tickIndex |-> IF Live(new)
                       THEN insert_order(remove_order(index, order), new, stored)
                       ELSE remove_order(index, order),
         escrow    |-> commit(release(ledger, order.owner, token, order.escrow_amount),
                              order.owner, token, new.escrow_amount)]

\* update(order_id, caller, new_tick_lower, new_tick_upper, new_limit_price, new_quantity)
Update(order_id, caller, tick_lower, tick_upper, limit_price, quantity) ==
    /\ IF CommandError(UpdateError(order_id, caller, tick_lower, tick_upper, limit_price,
                                   quantity)) # "Ok"
       THEN Rejected(CommandError(UpdateError(order_id, caller, tick_lower, tick_upper,
                                              limit_price, quantity)))
       ELSE LET after == Updated(orders, tickIndex, escrow, order_id,
                                     tick_lower, tick_upper, limit_price, quantity)
            IN  /\ orders' = after.orders
                /\ tickIndex' = after.tickIndex
                /\ escrow' = after.escrow
                /\ UNCHANGED <<pairs, reservations>>
    /\ UNCHANGED <<matcherVars, clientVars, facadeVars>>

\* scan_and_match yields one proposal: Proposed -> Reserved -> AwaitingAck
Propose(buy_id, sell_id) ==
    /\ ~halted
    /\ buy_id \in DOMAIN orders /\ sell_id \in DOMAIN orders
    /\ LET buy  == orders[buy_id]
           sell == orders[sell_id]
           pair == pairs[buy.pair_id]
           fill_qty == Min(remaining(orders, reservations, buy_id),
                           remaining(orders, reservations, sell_id))
           p == SettlementProposal(buy, sell, fill_qty)
       IN  /\ buy.side = "Buy" /\ sell.side = "Sell"
           /\ Live(buy) /\ Live(sell)
           /\ check_match(buy, sell, pair) = "Ok"
           /\ \A q \in reservations : ~(q.buy_id = buy_id /\ q.sell_id = sell_id)
           /\ fill_qty > 0
           /\ committed(escrow, sell.owner, pair.base_token_id) >= p.fill_qty
           /\ committed(escrow, buy.owner, pair.quote_token_id) >= p.quote_amount
           /\ reservations' = reservations \cup {p}
    /\ UNCHANGED <<pairs, orders, tickIndex, escrow>>
    /\ UNCHANGED <<matcherVars, clientVars, facadeVars>>

\* a commit that releases the settled amount and keeps the residual of a filled order booked
ApplyFillKeepsResidual(order, fill_qty, amount) ==
    IF ~Live(order) THEN order
    ELSE [order EXCEPT !.filled = @ + fill_qty,
                       !.status = StatusOf(order.filled + fill_qty, order.quantity),
                       !.escrow_amount = @ - Min(amount, @)]

\* AwaitingAck -> Committed for one order of the proposal; a terminal order is left alone
ApplyFill(order, fill_qty, amount) ==
    IF ~Live(order) THEN order
    ELSE LET status == StatusOf(order.filled + fill_qty, order.quantity)
         IN  [order EXCEPT !.filled = @ + fill_qty,
                           !.status = status,
                           !.escrow_amount = IF status = "Filled" THEN 0
                                             ELSE @ - Min(amount, @)]

Unindex(index, before, after) ==
    IF Live(before) /\ ~Live(after) THEN remove_order(index, before) ELSE index

\* apply_ledger_event(SettlementCommitted)
SettlementCommitted(p) ==
    /\ p \in reservations
    /\ LET buy   == orders[p.buy_id]
           sell  == orders[p.sell_id]
           pair  == pairs[buy.pair_id]
           buy2  == ApplyFill(buy, p.fill_qty, p.quote_amount)
           sell2 == ApplyFill(sell, p.fill_qty, p.fill_qty)
       IN  /\ orders' = [orders EXCEPT ![p.buy_id] = buy2, ![p.sell_id] = sell2]
           /\ tickIndex' = Unindex(Unindex(tickIndex, buy, buy2), sell, sell2)
           /\ escrow' = release(release(escrow, buy.owner, pair.quote_token_id,
                                        buy.escrow_amount - buy2.escrow_amount),
                                sell.owner, pair.base_token_id,
                                sell.escrow_amount - sell2.escrow_amount)
    /\ reservations' = reservations \ {p}
    /\ UNCHANGED pairs
    /\ UNCHANGED <<matcherVars, clientVars, facadeVars>>

\* apply_ledger_event(SettlementRejected), or ACK_TIMEOUT ran out: AwaitingAck -> ReleasedBack
SettlementRejected(p) ==
    /\ p \in reservations
    /\ reservations' = reservations \ {p}
    /\ UNCHANGED <<pairs, orders, tickIndex, escrow>>
    /\ UNCHANGED <<matcherVars, clientVars, facadeVars>>

CoreNext ==
    \/ \E cmd \in SubmitCommands, available \in BOOLEAN : Submit(cmd, available)
    \/ \E order_id \in OrderIds, caller \in Owners : Cancel(order_id, caller)
    \/ \E order_id \in OrderIds, caller \in Owners, shape \in UpdateShapes,
          quantity \in 0..MaxQuantity :
          Update(order_id, caller, shape[1], shape[2], shape[3], quantity)
    \/ \E buy_id \in OrderIds, sell_id \in OrderIds : Propose(buy_id, sell_id)
    \/ \E p \in reservations : SettlementCommitted(p)
    \/ \E p \in reservations : SettlementRejected(p)

(***************************************************************************)
(* useOrderBook (client hook): the tick display built from the locally     *)
(* tracked orders                                                          *)
(***************************************************************************)
LocalTicks == 0 .. MaxTick

\* the orders the page hands to addLocalOrder
LocalOrders ==
    { [tickLower |-> lo, tickUpper |-> hi, isBuy |-> b] :
         lo \in LocalTicks, hi \in 1 .. MaxTick + 1, b \in BOOLEAN }

\* token-pairs.tickToPrice, kept in 1/10000 dollar
tickToPrice(tickId, tickSize) == tickId * tickSize

\* a loop that also visits tickUpper
LocalRangeClosed(order) == { tick \in order.tickLower .. order.tickUpper : tick <= order.tickUpper }

\* the ticks the loop of addLocalOrder visits
LocalRange(order) == { tick \in order.tickLower .. order.tickUpper : tick < order.tickUpper }

\* the entry of one visited tick after the update
updatedTick(prev, tick, order) ==
    IF tick \in DOMAIN prev
    THEN [prev[tick] EXCEPT !.buyOrderCount = @ + (IF order.isBuy THEN 1 ELSE 0),
                            !.sellOrderCount = @ + (IF order.isBuy THEN 0 ELSE 1),
                            !.orderCount = @ + 1,
                            !.volume = @ + 500]
    ELSE [tickId |-> tick,
          tickRange |-> [min |-> tickToPrice(tick, TICK_SIZE), max |-> tickToPrice(tick + 1, TICK_SIZE)],
          buyOrderCount |-> IF order.isBuy THEN 1 ELSE 0,
          sellOrderCount |-> IF order.isBuy THEN 0 ELSE 1,
          orderCount |-> 1,
          volume |-> 500]

InitBook == ticks = EmptyMap

addLocalOrder(order) ==
    /\ \A tick \in LocalRange(order) : tick \in DOMAIN ticks => ticks[tick].orderCount < MaxLocalOrders
    /\ ticks' = [tick \in DOMAIN ticks \cup LocalRange(order) |->
                    IF tick \in LocalRange(order) THEN updatedTick(ticks, tick, order) ELSE ticks[tick]]
    /\ UNCHANGED <<matcherVars, coreVars, validation, quoted>>

BookNext == \E order \in LocalOrders : addLocalOrder(order)

(***************************************************************************)
(* Client validation of order parameters (contract helpers and             *)
(* AleoContractService)                                                    *)
(***************************************************************************)
TickOrderParams(tokenPairId, tickLower, tickUpper, limitPrice, quantity) ==
    [tokenPairId |-> tokenPairId, tickLower |-> tickLower, tickUpper |-> tickUpper,
     limitPrice |-> limitPrice, quantity |-> quantity]

\* the parameters the form may send: both token pair ids around 0, ranges of
\* width -1, 0, 1, MAX_TICK_RANGE and MAX_TICK_RANGE + 1, limit prices on and
\* next to both bounds of the range, quantities 0 and 1
FormWidths == { -1, 0, 1, MAX_TICK_RANGE, MAX_TICK_RANGE + 1 }

FormPrices ==
    { 0, TICK_SIZE - 1, TICK_SIZE, 2 * TICK_SIZE, 2 * TICK_SIZE + 1,
      MAX_TICK_RANGE * TICK_SIZE, (MAX_TICK_RANGE + 1) * TICK_SIZE,
      (MAX_TICK_RANGE + 1) * TICK_SIZE + 1 }

FormOrders ==
    { order \in { TickOrderParams(tp, lo, lo + w, price, qty) :
                    tp \in { 0, 1 }, lo \in { 0, 1 }, w \in FormWidths,
                    price \in FormPrices, qty \in { 0, 1 } } :
         order.tickUpper >= 0 }

\* a validation that refuses a limit price on the upper bound of the range
validateTickOrderStrictUpper(order) ==
    IF order.tokenPairId <= 0 THEN "Invalid token pair ID"
    ELSE IF order.tickLower >= order.tickUpper THEN "Tick lower must be less than tick upper"
    ELSE IF order.tickUpper - order.tickLower > MAX_TICK_RANGE THEN "Tick range too wide"
    ELSE IF order.tickUpper - order.tickLower <= 0 THEN "Tick range must be positive"
    ELSE IF order.limitPrice < order.tickLower * TICK_SIZE
            \/ order.limitPrice >= order.tickUpper * TICK_SIZE
         THEN "Limit price must be within tick range"
    ELSE IF order.quantity <= 0 THEN "Quantity must be positive"
    ELSE "null"

\* contract helpers validateTickOrder: "null" if valid, else the error message
validateTickOrder(order) ==
    IF order.tokenPairId <= 0 THEN "Invalid token pair ID"
    ELSE IF order.tickLower >= order.tickUpper THEN "Tick lower must be less than tick upper"
    ELSE IF order.tickUpper - order.tickLower > MAX_TICK_RANGE THEN "Tick range too wide"
    ELSE IF order.tickUpper - order.tickLower <= 0 THEN "Tick range must be positive"
    ELSE IF order.limitPrice < order.tickLower * TICK_SIZE
            \/ order.limitPrice > order.tickUpper * TICK_SIZE
         THEN "Limit price must be within tick range"
    ELSE IF order.quantity <= 0 THEN "Quantity must be positive"
    ELSE "null"

\* AleoContractService.validateTickOrder
validateTickOrderContract(order) ==
    LET rangeWidth == order.tickUpper - order.tickLower
    IN  IF rangeWidth > MAX_TICK_RANGE \/ rangeWidth <= 0 THEN FALSE
        ELSE IF order.limitPrice < order.tickLower * TICK_SIZE
                \/ order.limitPrice > order.tickUpper * TICK_SIZE THEN FALSE
        ELSE IF order.quantity <= 0 THEN FALSE
        ELSE TRUE

InitForm ==
    validation = [called |-> FALSE, order |-> TickOrderParams(0, 0, 0, 0, 0),
                  error |-> "null", valid |-> FALSE]

\* the client validates the parameters of an order before it sends them
Validate(order) ==
    /\ validation' = [called |-> TRUE, order |-> order,
                      error |-> validateTickOrder(order),
                      valid |-> validateTickOrderContract(order)]
    /\ UNCHANGED <<matcherVars, coreVars, ticks, quoted>>

FormNext == \E order \in FormOrders : Validate(order)

(***************************************************************************)
(* The execution price and the amounts of a settlement, as the matcher,    *)
(* the executor and the client compute them for a buy and a sell order     *)
(***************************************************************************)
\* a JavaScript number that is whole or lies halfway between two whole numbers,
\* given as twice its value
JsNumber(twice) == [whole |-> twice \div 2, halves |-> twice % 2]

\* client utilities: Math.floor((buyLimitBps + sellLimitBps) / 2)
calculateMidpointPrice(buyLimitBps, sellLimitBps) ==
    JsNumber(2 * ((buyLimitBps + sellLimitBps) \div 2))

\* client/lib/aleo-contract.ts: (buyLimit + sellLimit) / 2
calculateMidpointPriceContract(buyLimit, sellLimit) ==
    JsNumber(buyLimit + sellLimit)

PriceLimits == { 149500, 150000, 150005, 150010 }

PriceQuantities == { 1, 1000, 7000 }

PriceBuys ==
    { TickOrder("b1", "A", TRUE, 1495, 1501, price, qty, 0, 100) :
         price \in PriceLimits, qty \in PriceQuantities }

PriceSells ==
    { TickOrder("s1", "B", FALSE, 1495, 1501, price, qty, 0, 101) :
         price \in PriceLimits, qty \in PriceQuantities }

InitQuote ==
    quoted = [called |-> FALSE, buyOrder |-> <<>>, sellOrder |-> <<>>, candidate |-> <<>>,
              settlement |-> <<>>, submitted |-> <<>>,
              midpoint |-> JsNumber(0), midpointContract |-> JsNumber(0)]

\* evaluateMatch prices the two orders; calculateSettlement and executeSettlement
\* compute the amounts of the candidate; the client computes the midpoint twice
Quote(buyOrder, sellOrder) ==
    /\ LET candidate == evaluateMatch(buyOrder, sellOrder)
       IN  quoted' =
              [called |-> TRUE, buyOrder |-> buyOrder, sellOrder |-> sellOrder,
               candidate |-> candidate,
               settlement |-> IF candidate = <<>> THEN <<>>
                              ELSE << calculateSettlement(candidate[1]) >>,
               submitted |-> IF candidate = <<>> THEN <<>>
                             ELSE << SettlementOf(candidate[1], now) >>,
               midpoint |-> calculateMidpointPrice(buyOrder.limit_price, sellOrder.limit_price),
               midpointContract |-> calculateMidpointPriceContract(buyOrder.limit_price,
                                                                   sellOrder.limit_price)]
    /\ UNCHANGED <<matcherVars, coreVars, ticks, validation>>

QuoteNext == \E buyOrder \in PriceBuys, sellOrder \in PriceSells : Quote(buyOrder, sellOrder)

Init == InitMatcher /\ InitCore /\ InitBook /\ InitForm /\ InitQuote

QuoteSpec == Init /\ [][QuoteNext]_vars


FormSpec == Init /\ [][FormNext]_vars

BookSpec == Init /\ [][BookNext]_vars

Spec == Init /\ [][Next]_vars

CoreSpec == Init /\ [][CoreNext]_vars

(***************************************************************************)
(* One scan of the matcher service over a book of one buy and one sell     *)
(* order drawn from a wider set: token pairs, owners, tick ranges and      *)
(* limit prices that evaluateMatch has to tell apart.                      *)
(***************************************************************************)
ScanRanges == { <<1, 2>>, <<2, 3>>, <<1, 1>> }

ScanPrices == { TICK_SIZE, 2 * TICK_SIZE - 1, 2 * TICK_SIZE }

\* large enough for the matcher fee to reach minProfitBasisPoints at these prices
ScanQuantities == { 1200000 }

ScanBuys ==
    { [TickOrder("b1", "A", TRUE, r[1], r[2], price, qty, 0, 100) EXCEPT !.token_pair = tp] :
         r \in ScanRanges, price \in ScanPrices, qty \in ScanQuantities, tp \in {1, 2} }

ScanSells ==
    { [TickOrder("s1", o, FALSE, r[1], r[2], price, qty, 0, 101) EXCEPT !.token_pair = tp] :
         o \in {"A", "B"}, r \in ScanRanges, price \in ScanPrices, qty \in ScanQuantities,
         tp \in {1, 2} }

InitScan ==
    /\ \E b \in ScanBuys, s \in ScanSells :
          orderBook = addOrder(addOrder([buyOrders |-> <<>>, sellOrders |-> <<>>], b), s)
    /\ tickRegistry = <<>>
    /\ isRunning = FALSE
    /\ scanInterval = FALSE
    /\ cycles = <<>>
    /\ nCycles = 0
    /\ inflight = {}
    /\ pendingSettlements = <<>>
    /\ completedSettlements = <<>>
    /\ now = 0
    /\ nackCount = [p \in PairIds |-> 0]
    /\ exhaustedAt = [p \in PairIds |-> 0]
    /\ settledQty = [n \in { o.nonce : o \in OrderCatalog } |-> 0]
    /\ InitCore
    /\ InitBook
    /\ InitForm
    /\ InitQuote

ScanNext ==
    \/ Start
    \/ FetchFails(1)
    \/ \E reg \in ChainRegistries : FetchResolves(1, reg)
    \/ \E f \in inflight : Confirmed(f)
    \/ \E f \in inflight : Failed(f)
    \/ \E f \in inflight : Errored(f)

ScanSpec == InitScan /\ [][ScanNext]_vars

(***************************************************************************)
(* One scan of the matcher service over a book of one buy and two sell     *)
(* orders that differ in limit price and quantity, entered in either       *)
(* order: the candidates findMatches has to rank.                          *)
(***************************************************************************)
RankQuantities == { 1, 3 }

RankBuys ==
    { TickOrder("b1", "A", TRUE, 1, 2, 2 * TICK_SIZE, qty, 0, 100) : qty \in RankQuantities }

RankSells ==
    { TickOrder(n[1], "B", FALSE, 1, 2, price, qty, 0, n[2]) :
         n \in { <<"s1", 101>>, <<"s2", 102>> },
         price \in { TICK_SIZE, TICK_SIZE + TICK_SIZE \div 2 }, qty \in RankQuantities }

RankPairIds == { <<b.nonce, s.nonce>> : b \in RankBuys, s \in RankSells }

InitRank ==
    /\ \E b \in RankBuys, s \in RankSells, t \in RankSells :
          /\ s.nonce # t.nonce
          /\ orderBook = addOrder(addOrder(addOrder([buyOrders |-> <<>>, sellOrders |-> <<>>],
                                                    b), s), t)
    /\ tickRegistry = <<>>
    /\ isRunning = FALSE
    /\ scanInterval = FALSE
    /\ cycles = <<>>
    /\ nCycles = 0
    /\ inflight = {}
    /\ pendingSettlements = <<>>
    /\ completedSettlements = <<>>
    /\ now = 0
    /\ nackCount = [p \in RankPairIds |-> 0]
    /\ exhaustedAt = [p \in RankPairIds |-> 0]
    /\ settledQty = [n \in { o.nonce : o \in RankBuys \cup RankSells } |-> 0]
    /\ InitCore
    /\ InitBook
    /\ InitForm
    /\ InitQuote

RankSpec == InitRank /\ [][ScanNext]_vars

(***************************************************************************)
(* The intake of the order book: users submit orders to the matcher and    *)
(* take them back, among them orders that reuse a nonce                    *)
(***************************************************************************)
IntakeNext ==
    \/ \E order \in ScanBuys \cup ScanSells : AddOrder(order)
    \/ \E order \in ScanBuys \cup ScanSells : RemoveOrder(order)

IntakeSpec == Init /\ [][IntakeNext]_vars

(***************************************************************************)
(* Part II, continued: the ledger events the core consumes, the fatal      *)
(* errors and the halt, modelled from the written specification.           *)
(***************************************************************************)
OrderObserved(sequence, cmd, created_at) ==
    [event_kind |-> "OrderObserved", sequence |-> sequence,
     order_id |-> cmd.order_id, owner |-> cmd.owner, pair_id |-> cmd.pair_id, side |-> cmd.side,
     tick_lower |-> cmd.tick_lower, tick_upper |-> cmd.tick_upper,
     limit_price |-> cmd.limit_price, quantity |-> cmd.quantity,
     escrow_amount |-> RequiredEscrow(cmd.side, cmd.quantity, cmd.limit_price),
     created_at |-> created_at]

OrderCancelledOnChain(sequence, order_id) ==
    [event_kind |-> "OrderCancelledOnChain", sequence |-> sequence, order_id |-> order_id]

EscrowSync(sequence, owner, token_id, external_committed) ==
    [event_kind |-> "EscrowSync", sequence |-> sequence,
     owner |-> owner, token_id |-> token_id, external_committed |-> external_committed]

\* the event stream of the ledger: the buy of A and a sell of B are observed,
\* the ledger reports what it holds for each of them, and the sell is cancelled on chain
LedgerEvents ==
    { OrderObserved(1, SubmitOrder(1, "A", "Buy",  1, 3, 2 * BASIS_POINTS_PER_DOLLAR, 3), 0),
      OrderObserved(2, SubmitOrder(2, "B", "Sell", 1, 2, BASIS_POINTS_PER_DOLLAR, 1), 1),
      EscrowSync(3, "A", "QUOTE", 6),
      EscrowSync(4, "B", "BASE", 1),
      OrderCancelledOnChain(5, 2) }

\* the core as one value: what a ledger event is applied to and what it leaves
CoreState(ords, index, ledger, flag, affected) ==
    [orders |-> ords, tickIndex |-> index, escrow |-> ledger, halted |-> flag,
     desynced |-> affected]

ObservedOrder(ev) ==
    [order_id |-> ev.order_id, owner |-> ev.owner, pair_id |-> ev.pair_id, side |-> ev.side,
     tick_lower |-> ev.tick_lower, tick_upper |-> ev.tick_upper,
     limit_price |-> ev.limit_price, quantity |-> ev.quantity, filled |-> 0,
     escrow_amount |-> ev.escrow_amount, created_at |-> ev.created_at, status |-> "Active"]

\* an observation that books the order again when the core already holds it
ObservedAgain(core, ev) ==
    LET order  == ObservedOrder(ev)
        stored == [id \in DOMAIN core.orders \cup {ev.order_id} |->
                      IF id = ev.order_id THEN order ELSE core.orders[id]]
    IN  [core EXCEPT !.orders = stored,
                     !.tickIndex = insert_order(core.tickIndex, order, stored),
                     !.escrow = commit(core.escrow, order.owner,
                                       EscrowToken(pairs[order.pair_id], order.side),
                                       order.escrow_amount)]

\* OrderObserved: the order enters OrderStore, TickIndex and EscrowLedger, once
Observed(core, ev) ==
    IF ev.order_id \in DOMAIN core.orders THEN core
    ELSE LET order  == ObservedOrder(ev)
             stored == core.orders @@ (ev.order_id :> order)
         IN  [core EXCEPT !.orders = stored,
                          !.tickIndex = insert_order(core.tickIndex, order, stored),
                          !.escrow = commit(core.escrow, order.owner,
                                            EscrowToken(pairs[order.pair_id], order.side),
                                            order.escrow_amount)]

\* OrderCancelledOnChain: a live order is cancelled as by cancel, any other is left alone
CancelledOnChain(core, ev) ==
    IF ev.order_id \notin DOMAIN core.orders THEN core
    ELSE IF ~Live(core.orders[ev.order_id]) THEN core
    ELSE LET after == Cancelled(core.orders, core.tickIndex, core.escrow, ev.order_id)
         IN  [core EXCEPT !.orders = after.orders, !.tickIndex = after.tickIndex,
                          !.escrow = after.escrow]

\* a reconciliation that does not notice the divergence
EscrowSyncedUnnoticed(core, ev) == core

\* EscrowSync: an external amount that differs from the committed one is the
\* fatal error EscrowDesync: it is surfaced for that owner and token and trips the
\* sticky flag; an amount that agrees resynchronises the owner
EscrowSynced(core, ev) ==
    IF committed(core.escrow, ev.owner, ev.token_id) # ev.external_committed
    THEN [core EXCEPT !.halted = TRUE,
                      !.desynced = @ \cup { <<ev.owner, ev.token_id>> }]
    ELSE [core EXCEPT !.desynced = @ \ { <<ev.owner, ev.token_id>> }]

Applied(core, ev) ==
    CASE ev.event_kind = "OrderObserved"         -> Observed(core, ev)
      [] ev.event_kind = "OrderCancelledOnChain" -> CancelledOnChain(core, ev)
      [] ev.event_kind = "EscrowSync"            -> EscrowSynced(core, ev)

\* apply_ledger_event(event)
apply_ledger_event(ev) ==
    /\ LET after == Applied(CoreState(orders, tickIndex, escrow, halted, desynced), ev)
       IN  /\ orders' = after.orders
           /\ tickIndex' = after.tickIndex
           /\ escrow' = after.escrow
           /\ halted' = after.halted
           /\ desynced' = after.desynced
    /\ UNCHANGED <<pairs, reservations>>
    /\ UNCHANGED <<matcherVars, clientVars>>

\* reset_after_desync(): the supervisor has resynchronised the core and clears the flag
reset_after_desync ==
    /\ halted
    /\ halted' = FALSE
    /\ desynced' = {}
    /\ UNCHANGED <<pairs, orders, tickIndex, escrow, reservations>>
    /\ UNCHANGED <<matcherVars, clientVars>>

FacadeNext ==
    \/ \E cmd \in SubmitCommands, available \in BOOLEAN : Submit(cmd, available)
    \/ \E order_id \in OrderIds, caller \in Owners : Cancel(order_id, caller)
    \/ \E ev \in LedgerEvents : apply_ledger_event(ev)
    \/ reset_after_desync

FacadeSpec == Init /\ [][FacadeNext]_vars


(***************************************************************************)
(* Claims about the matcher service                                        *)
(***************************************************************************)
RECURSIVE SumQty(_)
SumQty(calls) ==
    IF calls = {} THEN 0
    ELSE LET f == CHOOSE g \in calls : TRUE
         IN  f.match.expectedQuantity + SumQty(calls \ {f})

Involves(f, order) ==
    f.match.buyOrder.nonce = order.nonce \/ f.match.sellOrder.nonce = order.nonce

InBook(book, order) ==
    order \in Range(book.buyOrders) \cup Range(book.sellOrders)

\* C1: for every order, filled plus the quantity of all its proposals in flight
\* (handed to executeSettlement and not yet confirmed or failed) is at most quantity.
C1_NoDoubleReservation ==
    \A f \in inflight : \A order \in {f.match.buyOrder, f.match.sellOrder} :
        order.filled + SumQty({ g \in inflight : Involves(g, order) }) <= order.quantity

\* C4: when a settlement is confirmed, filled of the buy order and of the sell
\* order each grow by exactly the settled quantity.
C4_CommitAddsFill ==
    [][\A f \in inflight :
          (Confirmed(f) /\ InBook(orderBook, f.match.buyOrder) /\ InBook(orderBook, f.match.sellOrder))
          => \E b \in Range(orderBook'.buyOrders), s \in Range(orderBook'.sellOrders) :
                /\ b.nonce = f.match.buyOrder.nonce
                /\ s.nonce = f.match.sellOrder.nonce
                /\ b.filled = f.match.buyOrder.filled + f.match.expectedQuantity
                /\ s.filled = f.match.sellOrder.filled + f.match.expectedQuantity]_vars

\* C5: when a proposal of a pair that failed at least once before is confirmed,
\* and nothing of the two orders was settled before, filled of both orders is
\* from then on the filled they were submitted with plus the settled quantity.
C5_RetryFillsOnce ==
    [][\A f \in inflight :
          (/\ Confirmed(f)
           /\ f.priorNacks >= 1
           /\ settledQty[f.match.buyOrder.nonce] = 0
           /\ settledQty[f.match.sellOrder.nonce] = 0
           /\ InBook(orderBook, f.match.buyOrder)
           /\ InBook(orderBook, f.match.sellOrder))
          => \E b \in Range(orderBook'.buyOrders), s \in Range(orderBook'.sellOrders),
                b0 \in OrderCatalog, s0 \in OrderCatalog :
                /\ b.nonce = f.match.buyOrder.nonce /\ b0.nonce = b.nonce
                /\ s.nonce = f.match.sellOrder.nonce /\ s0.nonce = s.nonce
                /\ b.filled = b0.filled + f.match.expectedQuantity
                /\ s.filled = s0.filled + f.match.expectedQuantity]_vars

\* the quantity of an order that evaluateMatch offers for matching
Available(order) == order.quantity - order.filled

Remaining(order) == order.quantity - order.filled - settledQty[order.nonce]

\* C7: every proposal handed to the chain pairs two orders that are live at that
\* moment: in the book, not filled, with a remaining quantity.
C7_HandedOrdersLive ==
    [][\A f \in inflight' \ inflight :
          \A order \in {f.match.buyOrder, f.match.sellOrder} :
             InBook(orderBook', order) /\ Remaining(order) > 0]_vars

\* C8: at most one proposal in flight per (buy, sell) pair.
C8_OneInFlightPerPair ==
    \A f, g \in inflight : PairOf(f.match) = PairOf(g.match) => f = g

\* C9: within one scan each (buy, sell) pair is found at most once.
C9_PairOncePerScan ==
    \A c \in DOMAIN cycles : \A i, j \in DOMAIN cycles[c].matches :
        PairOf(cycles[c].matches[i]) = PairOf(cycles[c].matches[j]) => i = j

\* C10: a failed proposal of a pair is retried at most MAX_RETRIES times; after
\* that the pair is not proposed again before SUPPRESS_WINDOW has elapsed.
C10_BoundedRetries ==
    \A f \in inflight :
        f.priorNacks > MAX_RETRIES => f.at >= exhaustedAt[PairOf(f.match)] + SUPPRESS_WINDOW

(***************************************************************************)
(* Claims about the candidates of a scan                                   *)
(***************************************************************************)
\* client utilities: overlapLow < overlapHigh
verifyTickOverlap(buyTickLower, buyTickUpper, sellTickLower, sellTickUpper) ==
    Max(buyTickLower, sellTickLower) < Min(buyTickUpper, sellTickUpper)

\* client/lib/aleo-contract.ts: overlapLow <= overlapHigh
verifyTickOverlapContract(buyTickLower, buyTickUpper, sellTickLower, sellTickUpper) ==
    Max(buyTickLower, sellTickLower) <= Min(buyTickUpper, sellTickUpper)

\* the candidates handed to executeSettlement, and those a running cycle found
Emitted ==
    { f.match : f \in inflight }
       \cup UNION { Range(cycles[c].matches) : c \in DOMAIN cycles }

\* the scan of a book holding b and s has run against a registry with liquidity
\* at every tick, and has returned without handing anything over
ScannedWithoutProposal(b, s) ==
    /\ b \in Range(orderBook.buyOrders) /\ s \in Range(orderBook.sellOrders)
    /\ isOrderValid(b) /\ isOrderValid(s)
    /\ nCycles = 1 /\ cycles = <<>> /\ inflight = {}
    /\ tickRegistry # <<>>
    /\ \A t \in Ticks : hasLiquidity(tickRegistry, t, 1)

\* C11: no candidate pairs a buy order and a sell order of the same owner.
C11_NoSelfTrade ==
    \A m \in Emitted : m.buyOrder.owner # m.sellOrder.owner

\* a book whose two orders differ from a matching pair only in having one owner
C11_Witness ==
    \E b \in ScanBuys, s \in ScanSells :
        /\ ScannedWithoutProposal(b, s)
        /\ b.owner = s.owner
        /\ ~DifferentPairs(b, s) /\ ~NoOverlap(b, s) /\ ~PricesDoNotCross(b, s)
        /\ ~PriceOutsideOverlap(b, s)

\* C12: every candidate has buy limit_price >= sell limit_price; equal limit
\* prices cross.
C12_PricesCross ==
    \A m \in Emitted : m.buyOrder.limit_price >= m.sellOrder.limit_price

\* a proposal of two orders with equal limit prices is in flight
C12_Witness ==
    \E f \in inflight : f.match.buyOrder.limit_price = f.match.sellOrder.limit_price

\* C13: every candidate pairs two orders whose half-open tick ranges intersect,
\* max of the lower ticks < min of the upper ticks, and the deciders of tick
\* overlap agree on it.
C13_HalfOpenOverlap ==
    \A m \in Emitted :
        LET b == m.buyOrder
            s == m.sellOrder
        IN  /\ Max(b.tick_lower, s.tick_lower) < Min(b.tick_upper, s.tick_upper)
            /\ verifyTickOverlap(b.tick_lower, b.tick_upper, s.tick_lower, s.tick_upper)
            /\ verifyTickOverlapContract(b.tick_lower, b.tick_upper, s.tick_lower, s.tick_upper)
                  = verifyTickOverlap(b.tick_lower, b.tick_upper, s.tick_lower, s.tick_upper)

C15_SameTokenPair ==
    \A m \in Emitted : m.buyOrder.token_pair = m.sellOrder.token_pair

\* a book whose two orders differ from a matching pair only in the token pair
C15_Witness ==
    \E b \in ScanBuys, s \in ScanSells :
        /\ ScannedWithoutProposal(b, s)
        /\ b.token_pair # s.token_pair
        /\ ~SelfTrade(b, s) /\ ~NoOverlap(b, s) /\ ~PricesDoNotCross(b, s)
        /\ ~PriceOutsideOverlap(b, s)
        /\ b.limit_price - s.limit_price >= minProfitBasisPoints

(***************************************************************************)
(* Claims about the order lifecycle                                        *)
(***************************************************************************)
Tokens == { pairs[p].base_token_id : p \in DOMAIN pairs } \cup { pairs[p].quote_token_id : p \in DOMAIN pairs }

RECURSIVE SumEscrow(_)
SumEscrow(ids) ==
    IF ids = {} THEN 0
    ELSE LET id == CHOOSE i \in ids : TRUE
         IN  orders[id].escrow_amount + SumEscrow(ids \ {id})

LiveEscrowing(owner, token_id) ==
    { id \in DOMAIN orders :
         /\ Live(orders[id])
         /\ orders[id].owner = owner
         /\ EscrowToken(pairs[orders[id].pair_id], orders[id].side) = token_id }

C3_FilledWithinQuantity ==
    \A id \in DOMAIN orders :
        LET o == orders[id]
        IN  /\ o.filled <= o.quantity
            /\ (o.status = "Filled") <=> (o.filled = o.quantity)
            /\ o.status # "Cancelled" =>
                  /\ (o.status = "Active") <=> (o.filled = 0)
                  /\ (o.status = "PartiallyFilled") <=> (0 < o.filled /\ o.filled < o.quantity)

\* an order became Filled because an update lowered its quantity to what was filled
C3_Witness ==
    \E cmd \in SubmitCommands :
        /\ cmd.order_id \in DOMAIN orders
        /\ orders[cmd.order_id].status = "Filled"
        /\ orders[cmd.order_id].filled > 0
        /\ orders[cmd.order_id].quantity < cmd.quantity

IndexedAt(book, tick) ==
    Range(getBuyOrdersInRange(book, tick, tick)) \cup Range(getSellOrdersInRange(book, tick, tick))

\* C18: no bucket of the tick index references an order whose whole quantity is
\* settled (or that was removed), while an order with a remaining quantity stays
\* indexed at every tick of its range.
C18_NoStaleIndexEntries ==
    /\ \A tick \in 0 .. MaxTick + 1 : \A order \in IndexedAt(orderBook, tick) : Remaining(order) > 0
    /\ \A order \in Range(orderBook.buyOrders) \cup Range(orderBook.sellOrders) :
          Remaining(order) > 0 =>
             \A tick \in order.tick_lower .. order.tick_upper - 1 : order \in IndexedAt(orderBook, tick)

(***************************************************************************)
(* Claims about submit and cancel                                          *)
(***************************************************************************)
SubmitReasons ==
    { "PairNotFound", "PairInactive", "InvalidTickRange", "TickRangeExceedsMax",
      "PriceOutsideTicks", "NonPositiveQuantity", "DuplicateOrder", "InsufficientEscrow" }

Indexed(index, order) ==
    \A k \in OrderKeys(order) :
        /\ k \in DOMAIN index
        /\ order.order_id \in Range(IF order.side = "Buy" THEN index[k].buy_ids ELSE index[k].sell_ids)

C21_CancelErrors ==
    /\ [](\A order_id \in DOMAIN orders, caller \in Owners :
             OwnerError(order_id, caller) =
                IF orders[order_id].owner # caller THEN "NotOwner"
                ELSE IF orders[order_id].status \in { "Filled", "Cancelled" } THEN "AlreadyTerminal"
                ELSE "Ok")
    /\ [][(orders' # orders \/ tickIndex' # tickIndex \/ escrow' # escrow) =>
             \A order_id \in OrderIds, caller \in Owners :
                Cancel(order_id, caller) =>
                   /\ order_id \in DOMAIN orders
                   /\ orders[order_id].owner = caller
                   /\ orders[order_id].status \in { "Active", "PartiallyFilled" }
                   /\ orders'[order_id].status = "Cancelled"]_vars

\* a cancelled order, a filled order and a live one: the owner's cancel of the
\* first two fails with AlreadyTerminal, another caller's cancel of the third
\* with NotOwner
C21_Witness ==
    \E c, f, l \in DOMAIN orders :
        /\ orders[c].status = "Cancelled" /\ OwnerError(c, orders[c].owner) = "AlreadyTerminal"
        /\ orders[f].status = "Filled" /\ OwnerError(f, orders[f].owner) = "AlreadyTerminal"
        /\ orders[l].status = "PartiallyFilled"
        /\ \E caller \in Owners : OwnerError(l, caller) = "NotOwner"

C23_FailedUpdateChangesNothing ==
    [][(orders' # orders \/ tickIndex' # tickIndex \/ escrow' # escrow) =>
          \A order_id \in DOMAIN orders, shape \in UpdateShapes, quantity \in 0 .. MaxQuantity :
             LET order == orders[order_id]
             IN  (\/ check_submission(pairs[order.pair_id], order.side, shape[1], shape[2],
                                      shape[3], quantity) # "Ok"
                  \/ quantity < order.filled)
                 => ~Update(order_id, order.owner, shape[1], shape[2], shape[3], quantity)]_vars

\* a partially filled order whose owner asks for a quantity below filled, and for
\* quantity 0: both updates are refused
C23_Witness ==
    \E order_id \in DOMAIN orders, shape \in UpdateShapes :
        LET order == orders[order_id]
        IN  /\ order.status = "PartiallyFilled" /\ order.filled = 2
            /\ reserved(reservations, order_id) = 0
            /\ UpdateError(order_id, order.owner, shape[1], shape[2], shape[3], 1) = "QuantityBelowFilled"
            /\ UpdateError(order_id, order.owner, shape[1], shape[2], shape[3], 0) = "NonPositiveQuantity"

\* the proposals in flight on an order
InFlightOn(order_id) == { p \in reservations : p.buy_id = order_id \/ p.sell_id = order_id }

C25_IdenticalUpdateIsNoOp ==
    \A cmd \in SubmitCommands :
        SubmitError(cmd, TRUE) = "Ok" =>
           LET s1 == Submitted(orders, tickIndex, escrow, cmd)
               s2 == Updated(s1.orders, s1.tickIndex, s1.escrow, cmd.order_id,
                             cmd.tick_lower, cmd.tick_upper, cmd.limit_price, cmd.quantity)
               token == EscrowToken(pairs[cmd.pair_id], cmd.side)
           IN  /\ s2.tickIndex = s1.tickIndex
               /\ committed(s2.escrow, cmd.owner, token) = committed(s1.escrow, cmd.owner, token)
               /\ s2.escrow = s1.escrow
               /\ s2.orders = s1.orders

\* a sell order shares a bucket with an earlier sell order of the same owner, and
\* an update with its own parameters is accepted and leaves everything in place
C25_Witness ==
    \E a, b \in DOMAIN orders :
        LET order == orders[b]
        IN  /\ a # b /\ orders[a].side = order.side /\ orders[a].owner = order.owner
            /\ Live(orders[a]) /\ order.status = "Active"
            /\ orders[a].created_at < order.created_at
            /\ OrderKeys(orders[a]) \cap OrderKeys(order) # {}
            /\ UpdateError(b, order.owner, order.tick_lower, order.tick_upper,
                           order.limit_price, order.quantity) = "Ok"
            /\ Updated(orders, tickIndex, escrow, b, order.tick_lower, order.tick_upper,
                       order.limit_price, order.quantity)
                  = [orders |-> orders, tickIndex |-> tickIndex, escrow |-> escrow]

C28_DuplicateOrderRefused ==
    [][\A order \in ScanBuys \cup ScanSells :
          LET side(book) == IF order.is_buy THEN Range(book.buyOrders) ELSE Range(book.sellOrders)
          IN  AddOrder(order) =>
                 \A existing \in side(orderBook) :
                    existing.nonce = order.nonce => existing \in side(orderBook')]_vars


C30_HaltedUntilReset ==
    /\ [](halted =>
            /\ \A cmd \in SubmitCommands, available \in BOOLEAN :
                  CommandError(SubmitError(cmd, available)) = "CoreHalted"
            /\ \A order_id \in OrderIds, caller \in Owners :
                  /\ CommandError(OwnerError(order_id, caller)) = "CoreHalted"
                  /\ \A shape \in UpdateShapes, quantity \in 0..MaxQuantity :
                        CommandError(UpdateError(order_id, caller, shape[1], shape[2],
                                                 shape[3], quantity)) = "CoreHalted")
    /\ [][halted =>
            /\ \A cmd \in SubmitCommands, available \in BOOLEAN :
                  Submit(cmd, available) => UNCHANGED coreVars
            /\ \A order_id \in OrderIds, caller \in Owners :
                  Cancel(order_id, caller) => UNCHANGED coreVars
            /\ ~halted' => reset_after_desync]_vars

\* the ledger reported an escrow the core does not hold, the flag is set, and a
\* submit, a cancel and an update the core would otherwise accept are refused
C30_Witness ==
    /\ halted
    /\ \E cmd \in SubmitCommands : SubmitError(cmd, TRUE) = "Ok"
    /\ \E order_id \in DOMAIN orders :
          /\ OwnerError(order_id, orders[order_id].owner) = "Ok"
          /\ \E shape \in UpdateShapes, quantity \in 1..MaxQuantity :
                UpdateError(order_id, orders[order_id].owner, shape[1], shape[2], shape[3],
                            quantity) = "Ok"

\* the EscrowSync events of the stream that report on <<owner, token_id>>
SyncsOf(key) ==
    { ev \in LedgerEvents : ev.event_kind = "EscrowSync" /\ <<ev.owner, ev.token_id>> = key }

Score(m) == (m.buyOrder.limit_price - m.sellOrder.limit_price) * m.expectedQuantity

\* lexicographic (buy.created_at, sell.created_at)
CreatedBefore(m, n) ==
    \/ m.buyOrder.timestamp < n.buyOrder.timestamp
    \/ /\ m.buyOrder.timestamp = n.buyOrder.timestamp
       /\ m.sellOrder.timestamp <= n.sellOrder.timestamp

\* C32: the candidates of a scan cycle come in descending order of
\* score = (buy.limit_price - sell.limit_price) * projected_fill, and candidates
\* of equal score in the order of (buy.created_at, sell.created_at).
C32_DescendingScore ==
    \A c \in DOMAIN cycles :
        LET matches == cycles[c].matches
        IN  \A i \in DOMAIN matches, j \in DOMAIN matches :
               i < j =>
                  \/ Score(matches[i]) > Score(matches[j])
                  \/ Score(matches[i]) = Score(matches[j]) /\ CreatedBefore(matches[i], matches[j])

\* the settlements of cycle c that are executing
InFlightOf(c) == { f \in inflight : f.cycle = c }

\* C33: one scan cycle starts at most maxConcurrentMatches settlements, however
\* many candidates it found: no step adds more than that to the executing
\* settlements, and no cycle ever has more than that executing.
C33_AtMostBudgetPerCycle ==
    /\ [](\A c \in 1..MaxCycles :
            /\ Cardinality(InFlightOf(c)) <= MaxConcurrentMatches
            /\ \A f \in InFlightOf(c) : f.idx <= MaxConcurrentMatches)
    /\ [][Cardinality(inflight' \ inflight) <= MaxConcurrentMatches]_vars

\* a cycle found more candidates than the budget and started exactly the budget
C33_Witness ==
    \E c \in DOMAIN cycles :
        /\ cycles[c].pc = "exec"
        /\ Len(cycles[c].matches) > MaxConcurrentMatches
        /\ Cardinality(InFlightOf(c)) = MaxConcurrentMatches

\* the truncating midpoint of two limit prices
Midpoint(buyOrder, sellOrder) == (buyOrder.limit_price + sellOrder.limit_price) \div 2

\* C34: the execution price is the truncating integer midpoint of the two limit
\* prices (150005 and 150000 give 150002) in every component that computes it:
\* evaluateMatch of the matcher and calculateMidpointPrice of the two client modules.
C34_TruncatingMidpoint ==
    quoted.called =>
       /\ \A i \in DOMAIN quoted.candidate :
             quoted.candidate[i].expectedPrice = Midpoint(quoted.buyOrder, quoted.sellOrder)
       /\ quoted.midpoint = JsNumber(2 * Midpoint(quoted.buyOrder, quoted.sellOrder))
       /\ quoted.midpointContract = JsNumber(2 * Midpoint(quoted.buyOrder, quoted.sellOrder))

\* C35: for every candidate base_amount = fill_qty,
\* quote_amount = (fill_qty * exec_price) div 10000 and
\* matcher_fee = (quote_amount * matcher_fee_bps) div 10000, in calculateSettlement
\* and in the settlement the executor submits; a fill of 1000 at 149750 with
\* 5 bps gives quote_amount 14975 and matcher_fee 7.
C35_SettlementAmounts ==
    quoted.called =>
       \A i \in DOMAIN quoted.candidate :
          LET m     == quoted.candidate[i]
              quote == (m.expectedQuantity * m.expectedPrice) \div 10000
              fee   == (quote * MATCHER_FEE_BPS) \div 10000
          IN  /\ quoted.settlement[i].baseAmount = m.expectedQuantity
              /\ quoted.settlement[i].quoteAmount = quote
              /\ quoted.settlement[i].matcherFee = fee
              /\ quoted.submitted[i].quantity = m.expectedQuantity
              /\ quoted.submitted[i].price = m.expectedPrice
              /\ quoted.submitted[i].matcher_fee = fee
              /\ (m.expectedQuantity = 1000 /\ m.expectedPrice = 149750)
                    => quote = 14975 /\ fee = 7

\* a buy at 150000 and a sell at 149500 were priced: the candidate fills 1000 at
\* 149750, for a quote amount of 14975 and a matcher fee of 7
C35_Witness ==
    /\ quoted.called
    /\ quoted.candidate # <<>>
    /\ quoted.candidate[1].expectedQuantity = 1000
    /\ quoted.candidate[1].expectedPrice = 149750
    /\ quoted.settlement[1].quoteAmount = 14975
    /\ quoted.settlement[1].matcherFee = 7
    /\ quoted.submitted[1].matcher_fee = 7

(***************************************************************************)
(* Claims about the cycles of the matcher service                          *)
(***************************************************************************)
\* C36: over any number of scan cycles the confirmed settlements that involve
\* an order never add up to more than the order's quantity: a pair settled in
\* one cycle is not settled again for the same quantity in a later one.
C36_SettledWithinQuantity ==
    \A order \in OrderCatalog : settledQty[order.nonce] <= order.quantity

\* C37: at most one scan cycle is in progress at a time: no scanAndMatch call
\* starts while another is fetching the registry or awaiting its settlements.
C37_OneCycleAtATime ==
    \A c \in DOMAIN cycles, d \in DOMAIN cycles : c = d

\* C38: every entry of pendingSettlements is removed when its executeSettlement
\* call finishes, confirmed, failed or thrown: a finished call leaves no entry
\* under its settlement id, and when no settlement is executing the set is empty.
C38_PendingCleared ==
    /\ [](inflight = {} => DOMAIN pendingSettlements = {})
    /\ [][\A f \in inflight \ inflight' : f.sid \notin DOMAIN pendingSettlements']_vars

\* C39: once stop() has returned (the service was started and isRunning is
\* false again) no new scan cycle starts and no further settlement is handed
\* to the chain.
C39_NothingAfterStop ==
    [][(~isRunning /\ nCycles >= 1) =>
          /\ DOMAIN cycles' \subseteq DOMAIN cycles
          /\ inflight' \subseteq inflight]_vars

====
